---- MODULE Spec2Model ----
(***************************************************************************)
(* Address / ENS resolution hooks of the web frontend:                     *)
(*   useENSTokenAddress      (two revisions: with and without the ERC-20   *)
(*                            verification read)                           *)
(*   useENSProfile, useResolveAddressOrENS                                 *)
(*   useENSPreferences       (preference records and their decoding)       *)
(*   ManageTokens            (search box, debounce, useENSTokenAddress)    *)
(*                                                                         *)
(* Strings are sequences of one-character strings.  The absent values of   *)
(* JavaScript (undefined, null) and a thrown normalization error are       *)
(* one-element sequences holding a word that is not a character, so that   *)
(* every comparison is between sequences.                                  *)
(*                                                                         *)
(* A wagmi query (useEnsAddress, useEnsText, useEnsAvatar,                 *)
(* useReadContract) is modelled by the entry its observer currently reads: *)
(* the entry of the query cache under the current query key.  When the key *)
(* changes the observer moves to another cache entry, which starts empty   *)
(* and is fetched at once if the query is enabled.  A result arriving for  *)
(* a key that is no longer current lands in its own cache entry and is not *)
(* seen.  While the key stays the same the entry keeps its data, also      *)
(* when the query becomes disabled.                                        *)
(***************************************************************************)
EXTENDS Integers, Sequences, FiniteSets, TLC

\* Largest number of blanks put in front of and behind an input text.
MaxPad == 1

\* /^0x[a-fA-F0-9]{40}$/
AddrHexDigits == 40

(***************************************************************************)
(* Absent values                                                           *)
(***************************************************************************)
Undefined == <<"undefined">>
Null == <<"null">>
NormalizationError == <<"NormalizationError">>

\* JavaScript truthiness of a string-or-absent value.
Truthy(v) == v # Undefined /\ v # Null /\ v # <<>>

(***************************************************************************)
(* Characters and string functions                                         *)
(***************************************************************************)
LowerAlpha ==
  <<"a", "b", "c", "d", "e", "f", "g", "h", "i", "j", "k", "l", "m",
    "n", "o", "p", "q", "r", "s", "t", "u", "v", "w", "x", "y", "z">>
UpperAlpha ==
  <<"A", "B", "C", "D", "E", "F", "G", "H", "I", "J", "K", "L", "M",
    "N", "O", "P", "Q", "R", "S", "T", "U", "V", "W", "X", "Y", "Z">>
Digits == {"0", "1", "2", "3", "4", "5", "6", "7", "8", "9"}
HexChars == Digits \cup {"a", "b", "c", "d", "e", "f"} \cup {"A", "B", "C", "D", "E", "F"}
Whitespace == {" "}

Range(f) == {f[i] : i \in DOMAIN f}

UpperChars == Range(UpperAlpha)
LowerOf == [c \in UpperChars |-> LowerAlpha[CHOOSE i \in 1..Len(UpperAlpha) : UpperAlpha[i] = c]]

LowerChar(c) == IF c \in UpperChars THEN LowerOf[c] ELSE c

toLowerCase(s) == [i \in 1..Len(s) |-> LowerChar(s[i])]

includes(s, c) == \E i \in 1..Len(s) : s[i] = c

endsWith(s, t) ==
  /\ Len(s) >= Len(t)
  /\ SubSeq(s, Len(s) - Len(t) + 1, Len(s)) = t

String_trim(s) ==
  LET keep == {i \in 1..Len(s) : s[i] \notin Whitespace}
  IN  IF keep = {} THEN <<>>
      ELSE SubSeq(s, CHOOSE i \in keep : \A j \in keep : i <= j,
                     CHOOSE i \in keep : \A j \in keep : i >= j)

(***************************************************************************)
(* The addresses and names of the model                                    *)
(***************************************************************************)
AddrLower ==
   <<"0", "x", "a", "b", "c", "d", "e", "f", "0", "1", "2", "3", "4", "5",
     "6", "7", "8", "9", "a", "b", "c", "d", "e", "f", "0", "1", "2", "3",
     "4", "5", "6", "7", "8", "9", "a", "b", "c", "d", "e", "f", "0", "1">>
\* The EIP-55 form of AddrLower.
AddrChecksum ==
   <<"0", "x", "a", "b", "C", "D", "e", "F", "0", "1", "2", "3", "4", "5",
     "6", "7", "8", "9", "A", "b", "c", "d", "E", "f", "0", "1", "2", "3",
     "4", "5", "6", "7", "8", "9", "a", "B", "C", "D", "E", "F", "0", "1">>
\* "0xABCDEF0123456789ABCDEF0123456789ABCDEF01": the same address, every
\* hex letter in upper case (not its EIP-55 form).
AddrUpper ==
   <<"0", "x", "A", "B", "C", "D", "E", "F", "0", "1", "2", "3", "4", "5",
     "6", "7", "8", "9", "A", "B", "C", "D", "E", "F", "0", "1", "2", "3",
     "4", "5", "6", "7", "8", "9", "A", "B", "C", "D", "E", "F", "0", "1">>
\* A second address; without hex letters it is its own EIP-55 form.
AddrB ==
   <<"0", "x", "1", "1", "1", "1", "1", "1", "1", "1", "1", "1", "1", "1",
     "1", "1", "1", "1", "1", "1", "1", "1", "1", "1", "1", "1", "1", "1",
     "1", "1", "1", "1", "1", "1", "1", "1", "1", "1", "1", "1", "1", "1">>

NameLower == <<"a", ".", "e", "t", "h">>
NameUpper == <<"A", ".", "e", "t", "h">>
\* A name with an empty label, which normalization rejects.
NameBad == <<"a", ".", ".", "b">>
NoDot == <<"a", "b", "c">>
\* 0x and 39 hex digits.
AddrShort == SubSeq(AddrLower, 1, Len(AddrLower) - 1)
\* An address followed by ".eth" is a name, not an address.
AddrDotEth == AddrLower \o <<".", "e", "t", "h">>

Blanks(n) == [i \in 1..n |-> " "]

CoreInputs ==
  {<<>>, NoDot, NameLower, NameUpper, NameBad,
   AddrLower, AddrChecksum, AddrUpper, AddrShort, AddrDotEth}

Inputs ==
  {Undefined} \cup
  {Blanks(l) \o c \o Blanks(r) : c \in CoreInputs, l \in 0..MaxPad, r \in 0..MaxPad}

(***************************************************************************)
(* viem                                                                    *)
(***************************************************************************)
addressRegex(s) ==
  /\ Len(s) = 2 + AddrHexDigits
  /\ s[1] = "0"
  /\ s[2] = "x"
  /\ \A i \in 3..Len(s) : s[i] \in HexChars

\* EIP-55 checksum form (keccak-256 of the lower-case hex digits), tabulated
\* for the addresses of the model.
checksumAddress(s) ==
  IF toLowerCase(s) = AddrLower THEN AddrChecksum
  ELSE IF toLowerCase(s) = AddrB THEN AddrB
  ELSE Undefined

\* isAddress(address) with its default { strict: true }.
viem_isAddress(s) ==
  IF ~addressRegex(s) THEN FALSE
  ELSE IF toLowerCase(s) = s THEN TRUE
  ELSE checksumAddress(s) = s

\* normalize(name) of viem/ens: throws on a disallowed character or an empty
\* label, else folds the case.
NameChars == Range(LowerAlpha) \cup Range(UpperAlpha) \cup Digits \cup {".", "-"}

normalize(s) ==
  IF \/ \E i \in 1..Len(s) : s[i] \notin NameChars
     \/ s[1] = "."
     \/ s[Len(s)] = "."
     \/ \E i \in 1..(Len(s) - 1) : s[i] = "." /\ s[i + 1] = "."
    THEN NormalizationError
    ELSE toLowerCase(s)

(***************************************************************************)
(* The texts of the model, with trim and isAddress computed once for each  *)
(***************************************************************************)
Texts ==
  Inputs \cup {String_trim(i) : i \in Inputs} \cup {Undefined, Null, <<>>, NoDot, AddrB, AddrChecksum}

trimOf == [s \in Texts |-> String_trim(s)]
trim(s) == trimOf[s]

isAddressOf == [s \in Texts |-> viem_isAddress(s)]
isAddress(s) == isAddressOf[s]

(***************************************************************************)
(* parseFloat and number comparison                                        *)
(***************************************************************************)
DigitSeq == <<"0", "1", "2", "3", "4", "5", "6", "7", "8", "9">>

DigitValue(c) == (CHOOSE i \in 1..10 : DigitSeq[i] = c) - 1

RECURSIVE DigitsValue(_)
DigitsValue(ds) ==
  IF ds = <<>> THEN 0
  ELSE DigitsValue(SubSeq(ds, 1, Len(ds) - 1)) * 10 + DigitValue(ds[Len(ds)])

RECURSIVE Pow10(_)
Pow10(n) == IF n = 0 THEN 1 ELSE 10 * Pow10(n - 1)

Drop(s, n) == SubSeq(s, n + 1, Len(s))

startsWith(s, t) == Len(s) >= Len(t) /\ SubSeq(s, 1, Len(t)) = t

\* Length of the longest prefix of s made of decimal digits.
DigitPrefixLen(s) ==
  CHOOSE n \in 0..Len(s) :
    /\ \A i \in 1..n : s[i] \in Digits
    /\ n = Len(s) \/ s[n + 1] \notin Digits

\* Length of the longest prefix of s made of white space.
BlankPrefixLen(s) ==
  CHOOSE n \in 0..Len(s) :
    /\ \A i \in 1..n : s[i] \in Whitespace
    /\ n = Len(s) \/ s[n + 1] \notin Whitespace

NaN == [kind |-> "NaN", neg |-> FALSE, mant |-> 0, exp10 |-> 0]

IsNegative(s) == s # <<>> /\ s[1] = "-"

\* s without its sign, if it starts with one.
SkipSign(s) == IF s # <<>> /\ s[1] \in {"+", "-"} THEN Drop(s, 1) ELSE s

HasDot(s) == s # <<>> /\ s[1] = "."

\* Number of fraction digits at the head of afterInt, the text after the
\* integer digits.
FractionLen(afterInt) ==
  IF HasDot(afterInt) THEN DigitPrefixLen(Drop(afterInt, 1)) ELSE 0

\* Value of the digits of expBody, 0 when it starts with none.
ExponentDigits(expNeg, expBody, expLen) ==
  IF expLen = 0 THEN 0
  ELSE IF expNeg THEN 0 - DigitsValue(SubSeq(expBody, 1, expLen))
  ELSE DigitsValue(SubSeq(expBody, 1, expLen))

\* Value of the exponent part at the head of afterFrac, 0 when there is none.
Exponent(afterFrac) ==
  IF afterFrac # <<>> /\ afterFrac[1] \in {"e", "E"}
    THEN ExponentDigits(IsNegative(Drop(afterFrac, 1)), SkipSign(Drop(afterFrac, 1)),
                        DigitPrefixLen(SkipSign(Drop(afterFrac, 1))))
  ELSE 0

\* The decimal literal at the head of body: intLen integer digits, then
\* afterInt, which starts with fracLen fraction digits after a dot.
DecimalLiteral(neg, body, intLen, afterInt, fracLen) ==
  IF intLen + fracLen = 0 THEN NaN
  ELSE [kind |-> "finite", neg |-> neg,
        mant |-> DigitsValue(SubSeq(body, 1, intLen) \o
                             (IF HasDot(afterInt) THEN SubSeq(afterInt, 2, 1 + fracLen)
                              ELSE <<>>)),
        exp10 |-> Exponent(IF HasDot(afterInt) THEN Drop(afterInt, 1 + fracLen)
                           ELSE afterInt) - fracLen]

\* The number at the head of body, the text after white space and sign.
UnsignedLiteral(neg, body, intLen) ==
  IF startsWith(body, <<"I", "n", "f", "i", "n", "i", "t", "y">>)
    THEN [kind |-> "Infinity", neg |-> neg, mant |-> 0, exp10 |-> 0]
  ELSE DecimalLiteral(neg, body, intLen, Drop(body, intLen),
                      FractionLen(Drop(body, intLen)))

\* The number at the head of signed, the text after white space.
SignedLiteral(signed) ==
  UnsignedLiteral(IsNegative(signed), SkipSign(signed), DigitPrefixLen(SkipSign(signed)))

\* parseFloat(text): leading white space is skipped, then the longest prefix
\* that is a decimal literal (sign, digits, fraction, exponent) or Infinity is
\* read; what follows it is ignored.  The value of a finite result is
\* (neg ? -1 : 1) * mant * 10^exp10.
parseFloat(text) == SignedLiteral(Drop(text, BlankPrefixLen(text)))

Number_isNaN(v) == v.kind = "NaN"

\* v >= 0 (false for NaN; -0 >= 0 holds)
Number_geZero(v) ==
  CASE v.kind = "NaN" -> FALSE
    [] v.kind = "Infinity" -> ~v.neg
    [] OTHER -> ~v.neg \/ v.mant = 0

\* v <= n for a natural number n (false for NaN)
Number_le(v, n) ==
  CASE v.kind = "NaN" -> FALSE
    [] v.kind = "Infinity" -> v.neg
    [] OTHER ->
         \/ v.neg
         \/ v.mant = 0
         \/ IF v.exp10 >= 0 THEN v.mant * Pow10(v.exp10) <= n
            ELSE v.mant <= n * Pow10(0 - v.exp10)

(***************************************************************************)
(* Chains                                                                  *)
(***************************************************************************)
ETHEREUM == "ETHEREUM"
GOERLI == "GOERLI"
BSC == "BSC"
BSC_TESTNET == "BSC_TESTNET"
Chains == {ETHEREUM, GOERLI, BSC, BSC_TESTNET}

(***************************************************************************)
(* Query entries                                                           *)
(***************************************************************************)
IdleEntry == [st |-> "idle", data |-> Undefined]
LoadingEntry == [st |-> "loading", data |-> Undefined]
ErrorEntry == [st |-> "error", data |-> Undefined]
Success(v) == [st |-> "success", data |-> v]

\* What a lookup can return.
AddressValues == {Null, AddrB}
TokenRecordValues == {Null, <<>>, NoDot, AddrChecksum}
DecimalsValues == {<<"1", "8">>}
AvatarValues == {Null, <<"u">>}
\* An unset social record reads as absent, like a failed lookup.
SocialValues == {<<"h">>}

Settled(q) == q.st \in {"success", "error"}

\* The entry an observer reads after a render.  old: what it read before;
\* sameKey: the query key did not change; hasKey: the query has a name (or
\* address) to look up; wasEnabled, enabled: the query's enabled option
\* before and after.
NextEntry(old, sameKey, hasKey, wasEnabled, enabled) ==
  IF ~hasKey THEN IdleEntry
  ELSE IF sameKey
    THEN IF enabled /\ ~wasEnabled /\ old.st \in {"idle", "error"}
           THEN LoadingEntry
           ELSE old
    ELSE IF enabled THEN LoadingEntry ELSE IdleEntry

\* The results a lookup in flight can settle with.
Outcomes(values) == {Success(v) : v \in values} \cup {ErrorEntry}

\* The hooks a mounted component can call.
TokenHook == "useENSTokenAddress"
ResolveHook == "useResolveAddressOrENS"
PrefsHook == "useENSPreferences"
ManageHook == "ManageTokens"
SendHook == "SendTransactionContent"
Hooks == {TokenHook, ResolveHook, PrefsHook, ManageHook, SendHook}

VARIABLES
  hook,               \* the hook the mounted component calls
  chainId,            \* useActiveChainId().chainId
  tokenInput,         \* useENSTokenAddress: input
  tokenEnabled,       \* useENSTokenAddress: enabled
  primaryAddressQ,    \* useENSTokenAddress: useEnsAddress
  tokenTextRecordQ,   \* useENSTokenAddress: useEnsText, key 'token'
  decimalsQ,          \* useENSTokenAddress: useReadContract, decimals()
  verifyFailures,     \* useENSTokenAddress: failed attempts of the decimals() read
  resolveInput,       \* useResolveAddressOrENS: input
  resolveEnabled,     \* useResolveAddressOrENS: enabled
  addressQ,           \* useENSProfile: useEnsAddress
  avatarQ,            \* useENSProfile: useEnsAvatar
  socialQ,            \* useENSProfile: the six useEnsText, by record key
  domainName,         \* useENSPreferences: useDomainNameForAddress(account)
  prefQ,              \* useENSPreferences: the four useEnsText, by record key
  searchQuery,        \* ManageTokens: the text in the search box
  isDismissed,        \* ENSPreferencesIndicator: the banner was closed
  sendChainId,        \* SendTransactionContent: prop chainId
  assetChainId,       \* SendTransactionContent: prop asset.chainId
  attemptingTxn,      \* SendTransactionContent: prop attemptingTxn
  txHash,             \* SendTransactionContent: prop txHash
  pressed             \* ConfirmTransactionContent: what the button press called

tokenVars ==
  <<tokenInput, tokenEnabled, primaryAddressQ, tokenTextRecordQ, decimalsQ, verifyFailures>>

resolveVars == <<resolveInput, resolveEnabled, addressQ, avatarQ, socialQ>>

prefsVars == <<domainName, prefQ>>

sendVars == <<sendChainId, assetChainId, attemptingTxn, txHash, pressed>>

vars ==
  <<hook, chainId, tokenVars, resolveVars, prefsVars, searchQuery, isDismissed, sendVars>>

(***************************************************************************)
(* useENSTokenAddress, revision with ERC-20 verification                   *)
(***************************************************************************)
\* Variant: every non-address text is taken for a name (no `.` test).
Token_classify_noDotCheck(input) ==
  IF input = Undefined \/ input = <<>> \/ trim(input) = <<>>
    THEN [isENSName |-> FALSE, normalizedName |-> Null]
  ELSE LET trimmed == trim(input) IN
    IF isAddress(trimmed)
      THEN [isENSName |-> FALSE, normalizedName |-> Null]
    ELSE IF normalize(trimmed) = NormalizationError
      THEN [isENSName |-> FALSE, normalizedName |-> Null]
      ELSE [isENSName |-> TRUE, normalizedName |-> normalize(trimmed)]

\* const { isENSName, normalizedName } = useMemo(...)
Token_classify(input) ==
  IF input = Undefined \/ input = <<>> \/ trim(input) = <<>>
    THEN [isENSName |-> FALSE, normalizedName |-> Null]
  ELSE LET trimmed == trim(input) IN
    IF isAddress(trimmed)
      THEN [isENSName |-> FALSE, normalizedName |-> Null]
    ELSE IF includes(trimmed, ".")
      THEN IF normalize(trimmed) = NormalizationError
             THEN [isENSName |-> FALSE, normalizedName |-> Null]
             ELSE [isENSName |-> TRUE, normalizedName |-> normalize(trimmed)]
    ELSE [isENSName |-> FALSE, normalizedName |-> Null]

\* Variant: the lookups follow the wallet's chain.
Token_ensChainId_activeChain(chain) == chain

Token_ensChainId(chain) ==
  IF chain = ETHEREUM \/ chain = GOERLI THEN chain ELSE ETHEREUM

\* The classification of every input, computed once (useMemo on [input]).
Token_classified == [i \in Inputs |-> Token_classify(i)]

\* Variant: the lookups are gated on the enabled flag alone.
Token_lookupEnabled_flagOnly(isENSName, enabled, normalizedName) == enabled

\* query.enabled of useEnsAddress and of useEnsText
Token_lookupEnabled(isENSName, enabled, normalizedName) ==
  isENSName /\ enabled /\ normalizedName # Null

\* Variant: the primary address is preferred to the token record.
Token_resolvedAddress_primaryFirst(input, isENSName, tokenTextRecord, primaryAddress) ==
  IF ~isENSName /\ Truthy(input) /\ isAddress(trim(input))
    THEN trim(input)
  ELSE IF Truthy(primaryAddress) /\ isAddress(primaryAddress)
    THEN primaryAddress
  ELSE IF Truthy(tokenTextRecord) /\ isAddress(tokenTextRecord)
    THEN tokenTextRecord
  ELSE Null

\* Variant: an address input is returned as typed, blanks included.
Token_resolvedAddress_untrimmed(input, isENSName, tokenTextRecord, primaryAddress) ==
  IF ~isENSName /\ Truthy(input) /\ isAddress(trim(input))
    THEN input
  ELSE IF Truthy(tokenTextRecord) /\ isAddress(tokenTextRecord)
    THEN tokenTextRecord
  ELSE IF Truthy(primaryAddress) /\ isAddress(primaryAddress)
    THEN primaryAddress
  ELSE Null

Token_resolvedAddress(input, isENSName, tokenTextRecord, primaryAddress) ==
  IF ~isENSName /\ Truthy(input) /\ isAddress(trim(input))
    THEN trim(input)
  ELSE IF Truthy(tokenTextRecord) /\ isAddress(tokenTextRecord)
    THEN tokenTextRecord
  ELSE IF Truthy(primaryAddress) /\ isAddress(primaryAddress)
    THEN primaryAddress
  ELSE Null

\* query.enabled of useReadContract
Token_verifyEnabled(resolved) == resolved # Null

\* retry: 1
VerifyRetry == 1

\* The entry of the decimals() read after an attempt has failed, `failures`
\* attempts having failed before it: the read is tried again until
\* VerifyRetry retries are used up, then it ends in error.
Token_verifyAfterFailure(failures) ==
  IF failures < VerifyRetry THEN LoadingEntry ELSE ErrorEntry

Token_isERC20Token(resolved, dq) ==
  resolved # Null /\ dq.data # Undefined /\ dq.st # "error"

IsLoadingEntry(q) == q.st = "loading"

Token_isLoading(isENSName, pq, tq, dq) ==
  isENSName /\ (IsLoadingEntry(pq) \/ IsLoadingEntry(tq) \/ IsLoadingEntry(dq))

\* Variant: valid as soon as there is a candidate, verified or not.
Token_isValid_unverified(input, isENSName, resolved, isERC20) ==
  IF input = Undefined \/ input = <<>> \/ trim(input) = <<>> THEN FALSE
  ELSE IF isENSName THEN resolved # Null
  ELSE isAddress(trim(input))

Token_isValid(input, isENSName, resolved, isERC20) ==
  IF input = Undefined \/ input = <<>> \/ trim(input) = <<>> THEN FALSE
  ELSE IF isENSName THEN resolved # Null /\ isERC20
  ELSE isAddress(trim(input)) /\ isERC20

\* Variant: any non-empty record text counts as a token record.
Token_hasTokenRecord_anyText(tokenTextRecord) == Truthy(tokenTextRecord)

Token_hasTokenRecord(tokenTextRecord) ==
  Truthy(tokenTextRecord) /\ isAddress(tokenTextRecord)

\* The object the hook returns in the current state.
Token_result ==
  LET c == Token_classified[tokenInput]
      resolved == Token_resolvedAddress(tokenInput, c.isENSName,
                                        tokenTextRecordQ.data, primaryAddressQ.data)
      erc20 == Token_isERC20Token(resolved, decimalsQ)
  IN  [address |-> resolved,
       isENSName |-> c.isENSName,
       ensName |-> IF c.isENSName THEN c.normalizedName ELSE Null,
       isLoading |-> Token_isLoading(c.isENSName, primaryAddressQ, tokenTextRecordQ, decimalsQ),
       isValid |-> Token_isValid(tokenInput, c.isENSName, resolved, erc20),
       isERC20Token |-> erc20,
       decimals |-> decimalsQ.data,
       hasTokenRecord |-> Token_hasTokenRecord(tokenTextRecordQ.data)]

(***************************************************************************)
(* useENSTokenAddress, revision of apps/web/src/hooks (no verification)    *)
(***************************************************************************)
TokenWeb_classify(input) ==
  IF input = Undefined \/ input = <<>> \/ trim(input) = <<>>
    THEN [isENSName |-> FALSE, normalizedName |-> Null]
  ELSE LET trimmed == trim(input) IN
    IF isAddress(trimmed)
      THEN [isENSName |-> FALSE, normalizedName |-> Null]
    ELSE IF endsWith(trimmed, <<".", "e", "t", "h">>) \/ includes(trimmed, ".")
      THEN IF normalize(trimmed) = NormalizationError
             THEN [isENSName |-> FALSE, normalizedName |-> Null]
             ELSE [isENSName |-> TRUE, normalizedName |-> normalize(trimmed)]
    ELSE [isENSName |-> FALSE, normalizedName |-> Null]

TokenWeb_classified == [i \in Inputs |-> TokenWeb_classify(i)]

TokenWeb_lookupEnabled(isENSName, enabled, normalizedName) ==
  isENSName /\ enabled /\ normalizedName # Null

TokenWeb_resolvedAddress(input, isENSName, tokenTextRecord, primaryAddress) ==
  IF ~isENSName /\ Truthy(input) /\ isAddress(trim(input))
    THEN trim(input)
  ELSE IF Truthy(tokenTextRecord) /\ isAddress(tokenTextRecord)
    THEN tokenTextRecord
  ELSE IF Truthy(primaryAddress) /\ isAddress(primaryAddress)
    THEN primaryAddress
  ELSE Null

TokenWeb_isLoading(isENSName, pq, tq) ==
  isENSName /\ (IsLoadingEntry(pq) \/ IsLoadingEntry(tq))

TokenWeb_isValid(input, isENSName, resolved) ==
  IF input = Undefined \/ input = <<>> \/ trim(input) = <<>> THEN FALSE
  ELSE IF isENSName THEN resolved # Null
  ELSE isAddress(trim(input))

TokenWeb_result ==
  LET c == TokenWeb_classified[tokenInput]
      resolved == TokenWeb_resolvedAddress(tokenInput, c.isENSName,
                                           tokenTextRecordQ.data, primaryAddressQ.data)
  IN  [address |-> resolved,
       isENSName |-> c.isENSName,
       ensName |-> IF c.isENSName THEN c.normalizedName ELSE Null,
       isLoading |-> TokenWeb_isLoading(c.isENSName, primaryAddressQ, tokenTextRecordQ),
       isValid |-> TokenWeb_isValid(tokenInput, c.isENSName, resolved),
       hasTokenRecord |-> Truthy(tokenTextRecordQ.data) /\ isAddress(tokenTextRecordQ.data)]

(***************************************************************************)
(* Renders of useENSTokenAddress                                           *)
(***************************************************************************)
\* The verification read after a render: its key is (resolvedAddress, chainId).
TokenVerifyRerender(newInput, newChain) ==
  LET oldR == Token_resolvedAddress(tokenInput, Token_classified[tokenInput].isENSName,
                                    tokenTextRecordQ.data, primaryAddressQ.data)
      newR == Token_resolvedAddress(newInput, Token_classified[newInput].isENSName,
                                    tokenTextRecordQ'.data, primaryAddressQ'.data)
  IN  /\ decimalsQ' = NextEntry(decimalsQ, oldR = newR /\ chainId = newChain,
                                newR # Null, Token_verifyEnabled(oldR),
                                Token_verifyEnabled(newR))
      /\ verifyFailures' = IF oldR = newR /\ chainId = newChain /\ decimalsQ' = decimalsQ
                             THEN verifyFailures ELSE 0

\* The hook renders with a new input, enabled flag or active chain.
TokenRerender(newInput, newEnabled, newChain) ==
  LET old == Token_classified[tokenInput]
      new == Token_classified[newInput]
      oldName == old.normalizedName
      newName == new.normalizedName
      sameKey == oldName = newName /\ Token_ensChainId(chainId) = Token_ensChainId(newChain)
      was == Token_lookupEnabled(old.isENSName, tokenEnabled, oldName)
      now == Token_lookupEnabled(new.isENSName, newEnabled, newName)
  IN  /\ primaryAddressQ' = NextEntry(primaryAddressQ, sameKey, newName # Null, was, now)
      /\ tokenTextRecordQ' = NextEntry(tokenTextRecordQ, sameKey, newName # Null, was, now)
      /\ TokenVerifyRerender(newInput, newChain)

TokenSetInput(i) ==
  /\ hook = TokenHook
  /\ i # tokenInput
  /\ tokenInput' = i
  /\ TokenRerender(i, tokenEnabled, chainId)
  /\ UNCHANGED <<hook, chainId, tokenEnabled, resolveVars, prefsVars, searchQuery, isDismissed, sendVars>>

TokenSetEnabled ==
  /\ hook = TokenHook
  /\ tokenEnabled' = ~tokenEnabled
  /\ TokenRerender(tokenInput, ~tokenEnabled, chainId)
  /\ UNCHANGED <<hook, chainId, tokenInput, resolveVars, prefsVars, searchQuery, isDismissed, sendVars>>

\* The primary-address lookup settles.
TokenPrimarySettles ==
  /\ hook \in {TokenHook, ManageHook}
  /\ primaryAddressQ.st = "loading"
  /\ primaryAddressQ' \in Outcomes(AddressValues)
  /\ UNCHANGED <<hook, chainId, tokenInput, tokenEnabled, tokenTextRecordQ, resolveVars, prefsVars, searchQuery, isDismissed, sendVars>>
  /\ TokenVerifyRerender(tokenInput, chainId)

\* The `token` text-record lookup settles.
TokenRecordSettles ==
  /\ hook \in {TokenHook, ManageHook}
  /\ tokenTextRecordQ.st = "loading"
  /\ tokenTextRecordQ' \in Outcomes(TokenRecordValues)
  /\ UNCHANGED <<hook, chainId, tokenInput, tokenEnabled, primaryAddressQ, resolveVars, prefsVars, searchQuery, isDismissed, sendVars>>
  /\ TokenVerifyRerender(tokenInput, chainId)

\* The decimals() read settles.
TokenVerifySettles ==
  /\ hook \in {TokenHook, ManageHook}
  /\ decimalsQ.st = "loading"
  /\ \/ \E v \in DecimalsValues : decimalsQ' = Success(v) /\ verifyFailures' = 0
     \/ /\ decimalsQ' = Token_verifyAfterFailure(verifyFailures)
        /\ verifyFailures' = verifyFailures + 1
  /\ UNCHANGED <<hook, chainId, tokenInput, tokenEnabled, primaryAddressQ, tokenTextRecordQ, resolveVars, prefsVars, searchQuery, isDismissed, sendVars>>

(***************************************************************************)
(* useENSProfile                                                           *)
(***************************************************************************)
SocialKeys == {"com.twitter", "com.github", "com.discord", "org.telegram", "email", "url"}

Profile_isENSSupported(chain) == chain # BSC /\ chain # BSC_TESTNET

Profile_normalizedName(ensName) ==
  IF ~Truthy(ensName) THEN Undefined
  ELSE IF includes(ensName, ".")
    THEN IF normalize(ensName) = NormalizationError THEN Undefined ELSE normalize(ensName)
  ELSE Undefined

Profile_shouldFetch(enabled, isENSSupported, normalizedName) ==
  enabled /\ isENSSupported /\ Truthy(normalizedName)

\* chainId: chainId === ChainId.GOERLI ? ChainId.GOERLI : ChainId.ETHEREUM
Profile_lookupChain(chain) == IF chain = GOERLI THEN GOERLI ELSE ETHEREUM

\* Variant: the social lookups do not wait for the address.
Profile_socialEnabled_noAddress(shouldFetch, address) == shouldFetch

\* query.enabled of the six social text-record lookups
Profile_socialEnabled(shouldFetch, address) == shouldFetch /\ Truthy(address)

\* `x ?? undefined`
OrUndefined(v) == IF v = Null THEN Undefined ELSE v

\* Variant: a profile without an avatar is not valid.
Profile_result_needsAvatar(aq, vq, sq) ==
  [address |-> aq.data,
   avatar |-> OrUndefined(vq.data),
   isLoading |-> IsLoadingEntry(aq) \/ IsLoadingEntry(vq),
   socialRecords |-> [k \in SocialKeys |-> OrUndefined(sq[k].data)],
   isValid |-> Truthy(aq.data) /\ Truthy(vq.data)]

\* Variant: an outstanding social-record lookup also sets isLoading.
Profile_result_socialGates(aq, vq, sq) ==
  [address |-> aq.data,
   avatar |-> OrUndefined(vq.data),
   isLoading |-> \/ IsLoadingEntry(aq) \/ IsLoadingEntry(vq)
                 \/ \E k \in SocialKeys : IsLoadingEntry(sq[k]),
   socialRecords |-> [k \in SocialKeys |-> OrUndefined(sq[k].data)],
   isValid |-> Truthy(aq.data)]

\* The object useENSProfile returns, from what its queries hold.
Profile_result(aq, vq, sq) ==
  [address |-> aq.data,
   avatar |-> OrUndefined(vq.data),
   isLoading |-> IsLoadingEntry(aq) \/ IsLoadingEntry(vq),
   socialRecords |-> [k \in SocialKeys |-> OrUndefined(sq[k].data)],
   isValid |-> Truthy(aq.data)]

(***************************************************************************)
(* useResolveAddressOrENS                                                  *)
(***************************************************************************)
\* Variant: only lower-case hex digits are accepted.
Resolve_isAddress_lowerOnly(input) ==
  IF ~Truthy(input) THEN FALSE
  ELSE addressRegex(input) /\ toLowerCase(input) = input

Resolve_isAddress(input) ==
  IF ~Truthy(input) THEN FALSE ELSE addressRegex(input)

Resolve_isENSName(input, isAddr) ==
  IF ~Truthy(input) THEN FALSE ELSE includes(input, ".") /\ ~isAddr

\* What the hook derives from its input alone, computed once per input:
\* isAddress, isENSName and, inside useENSProfile(isENSName ? input :
\* undefined, ...), normalizedName.
Resolve_derive(input) ==
  LET isAddr == Resolve_isAddress(input)
      isENS == Resolve_isENSName(input, isAddr)
  IN  [isAddress |-> isAddr,
       isENSName |-> isENS,
       normalizedName |-> Profile_normalizedName(IF isENS THEN input ELSE Undefined)]

Resolve_derived == [i \in Inputs |-> Resolve_derive(i)]

\* shouldFetch of the useENSProfile call made by useResolveAddressOrENS
Resolve_shouldFetch(input, enabled, chain) ==
  Profile_shouldFetch(enabled /\ Resolve_derived[input].isENSName,
                      Profile_isENSSupported(chain),
                      Resolve_derived[input].normalizedName)

Resolve_return(input, isAddr, isENS, ensProfile) ==
  IF isAddr
    THEN [address |-> input,
          isENSName |-> FALSE,
          ensName |-> Undefined,
          avatar |-> Undefined,
          socialRecords |-> Undefined,
          isLoading |-> FALSE,
          isValid |-> TRUE]
  ELSE IF isENS
    THEN [address |-> ensProfile.address,
          isENSName |-> TRUE,
          ensName |-> input,
          avatar |-> ensProfile.avatar,
          socialRecords |-> ensProfile.socialRecords,
          isLoading |-> ensProfile.isLoading,
          isValid |-> ensProfile.isValid]
  ELSE [address |-> Undefined,
        isENSName |-> FALSE,
        ensName |-> Undefined,
        avatar |-> Undefined,
        socialRecords |-> Undefined,
        isLoading |-> FALSE,
        isValid |-> FALSE]

\* The object useResolveAddressOrENS returns in the current state.
Resolve_result ==
  Resolve_return(resolveInput,
                 Resolve_derived[resolveInput].isAddress,
                 Resolve_derived[resolveInput].isENSName,
                 Profile_result(addressQ, avatarQ, socialQ))

(***************************************************************************)
(* Renders of useResolveAddressOrENS / useENSProfile                       *)
(***************************************************************************)
\* The six social lookups after a render.
SocialRerender(sameKey, hasKey, was, now) ==
  socialQ' = [k \in SocialKeys |-> NextEntry(socialQ[k], sameKey, hasKey, was, now)]

ResolveRerender(newInput, newEnabled, newChain) ==
  LET oldName == Resolve_derived[resolveInput].normalizedName
      newName == Resolve_derived[newInput].normalizedName
      sameKey == oldName = newName /\ Profile_lookupChain(chainId) = Profile_lookupChain(newChain)
      hasKey == Truthy(newName)
      was == Resolve_shouldFetch(resolveInput, resolveEnabled, chainId)
      now == Resolve_shouldFetch(newInput, newEnabled, newChain)
  IN  /\ addressQ' = NextEntry(addressQ, sameKey, hasKey, was, now)
      /\ avatarQ' = NextEntry(avatarQ, sameKey, hasKey, was, now)
      /\ SocialRerender(sameKey, hasKey,
                        Profile_socialEnabled(was, addressQ.data),
                        Profile_socialEnabled(now, addressQ'.data))

ResolveSetInput(i) ==
  /\ hook = ResolveHook
  /\ i # resolveInput
  /\ resolveInput' = i
  /\ ResolveRerender(i, resolveEnabled, chainId)
  /\ UNCHANGED <<hook, chainId, resolveEnabled, tokenVars, prefsVars, searchQuery, isDismissed, sendVars>>

ResolveSetEnabled ==
  /\ hook = ResolveHook
  /\ resolveEnabled' = ~resolveEnabled
  /\ ResolveRerender(resolveInput, ~resolveEnabled, chainId)
  /\ UNCHANGED <<hook, chainId, resolveInput, tokenVars, prefsVars, searchQuery, isDismissed, sendVars>>

\* The name-to-address lookup settles; with a non-empty address the social
\* lookups become enabled.
ProfileAddressSettles ==
  /\ hook = ResolveHook
  /\ addressQ.st = "loading"
  /\ addressQ' \in Outcomes(AddressValues)
  /\ LET sf == Resolve_shouldFetch(resolveInput, resolveEnabled, chainId)
     IN  SocialRerender(TRUE, TRUE, Profile_socialEnabled(sf, addressQ.data),
                        Profile_socialEnabled(sf, addressQ'.data))
  /\ UNCHANGED <<hook, chainId, resolveInput, resolveEnabled, avatarQ, tokenVars, prefsVars, searchQuery, isDismissed, sendVars>>

ProfileAvatarSettles ==
  /\ hook = ResolveHook
  /\ avatarQ.st = "loading"
  /\ avatarQ' \in Outcomes(AvatarValues)
  /\ UNCHANGED <<hook, chainId, resolveInput, resolveEnabled, addressQ, socialQ, tokenVars, prefsVars, searchQuery, isDismissed, sendVars>>

ProfileSocialSettles(k) ==
  /\ hook = ResolveHook
  /\ socialQ[k].st = "loading"
  /\ \E e \in Outcomes(SocialValues) : socialQ' = [socialQ EXCEPT ![k] = e]
  /\ UNCHANGED <<hook, chainId, resolveInput, resolveEnabled, addressQ, avatarQ, tokenVars, prefsVars, searchQuery, isDismissed, sendVars>>

(***************************************************************************)
(* useENSPreferences                                                       *)
(***************************************************************************)
SLIPPAGE == "com.pancakeswap.slippage"
THEME == "com.pancakeswap.theme"
EXPERT_MODE == "com.pancakeswap.expertMode"
GAS_PRIORITY == "com.pancakeswap.gas"
PrefKeys == {SLIPPAGE, THEME, EXPERT_MODE, GAS_PRIORITY}

\* The name the connected account resolves to, if any.
DomainNames == {Undefined, NameLower}

\* Texts a preference record can hold.
SlippageTexts ==
  {<<"0", ".", "5">>, <<"7", "5">>, <<"a", "b", "c">>, <<"5", "0">>, <<"5", "x">>,
   <<"-", "1">>, <<"I", "n", "f", "i", "n", "i", "t", "y">>, <<"1", "e", "1">>}
ThemeTexts ==
  {<<"d", "a", "r", "k">>, <<"l", "i", "g", "h", "t">>, <<"D", "a", "r", "k">>,
   <<"b", "l", "u", "e">>}
ExpertModeTexts ==
  {<<"t", "r", "u", "e">>, <<"T", "r", "u", "e">>, <<"f", "a", "l", "s", "e">>,
   <<"y", "e", "s">>}
GasTexts ==
  {<<"l", "o", "w">>, <<"m", "e", "d", "i", "u", "m">>, <<"h", "i", "g", "h">>,
   <<"H", "I", "G", "H">>, <<"f", "a", "s", "t">>}

\* What the lookup of a preference record can return: null for an unset (or
\* empty) record, else its text.
PrefValues(k) ==
  {Null} \cup (CASE k = SLIPPAGE -> SlippageTexts
                 [] k = THEME -> ThemeTexts
                 [] k = EXPERT_MODE -> ExpertModeTexts
                 [] k = GAS_PRIORITY -> GasTexts)

Prefs_ensChainId(chain) == IF chain = GOERLI THEN GOERLI ELSE ETHEREUM

\* query.enabled of the four lookups
Prefs_lookupEnabled(domain) == Truthy(domain)

Prefs_isLoading(pq) ==
  \/ IsLoadingEntry(pq[SLIPPAGE])
  \/ IsLoadingEntry(pq[THEME])
  \/ IsLoadingEntry(pq[EXPERT_MODE])
  \/ IsLoadingEntry(pq[GAS_PRIORITY])

\* !isNaN(slippage) && slippage >= 0 && slippage <= 50
Prefs_slippageInRange(slippage) ==
  ~Number_isNaN(slippage) /\ Number_geZero(slippage) /\ Number_le(slippage, 50)

Prefs_slippageAccepted(slippageText) ==
  /\ Truthy(slippageText)
  /\ Prefs_slippageInRange(parseFloat(slippageText))

\* Variant: the theme is matched ignoring case.
Prefs_themeAccepted_ignoreCase(themeText) ==
  /\ Truthy(themeText)
  /\ toLowerCase(themeText) \in {<<"d", "a", "r", "k">>, <<"l", "i", "g", "h", "t">>}

Prefs_themeAccepted(themeText) ==
  /\ Truthy(themeText)
  /\ themeText = <<"d", "a", "r", "k">> \/ themeText = <<"l", "i", "g", "h", "t">>

Prefs_expertModeAccepted(expertModeText) == Truthy(expertModeText)

\* Variant: only the exact text `true` switches expert mode on.
Prefs_expertModeValue_caseSensitive(expertModeText) ==
  expertModeText = <<"t", "r", "u", "e">>

\* expertModeText.toLowerCase() === 'true'
Prefs_expertModeValue(expertModeText) ==
  toLowerCase(expertModeText) = <<"t", "r", "u", "e">>

\* Variant: the gas priority is matched exactly, upper case is rejected.
Prefs_gasAccepted_caseSensitive(gasText) ==
  /\ Truthy(gasText)
  /\ gasText \in {<<"l", "o", "w">>, <<"m", "e", "d", "i", "u", "m">>, <<"h", "i", "g", "h">>}

Prefs_gasAccepted(gasText) ==
  /\ Truthy(gasText)
  /\ toLowerCase(gasText) \in
       {<<"l", "o", "w">>, <<"m", "e", "d", "i", "u", "m">>, <<"h", "i", "g", "h">>}

\* The preferences object: a function whose domain is the set of fields
\* that are present.
Prefs_preferences(slippageText, themeText, expertModeText, gasText) ==
  LET present ==
        {f \in {"slippage", "theme", "expertMode", "gasPriority"} :
           \/ f = "slippage" /\ Prefs_slippageAccepted(slippageText)
           \/ f = "theme" /\ Prefs_themeAccepted(themeText)
           \/ f = "expertMode" /\ Prefs_expertModeAccepted(expertModeText)
           \/ f = "gasPriority" /\ Prefs_gasAccepted(gasText)}
  IN  [f \in present |->
         CASE f = "slippage" -> slippageText
           [] f = "theme" -> themeText
           [] f = "expertMode" -> Prefs_expertModeValue(expertModeText)
           [] f = "gasPriority" -> toLowerCase(gasText)]

Prefs_hasAnyPreferences(preferences) == Cardinality(DOMAIN preferences) > 0

\* The object useENSPreferences returns in the current state.
Prefs_result ==
  LET preferences == Prefs_preferences(prefQ[SLIPPAGE].data, prefQ[THEME].data,
                                       prefQ[EXPERT_MODE].data, prefQ[GAS_PRIORITY].data)
  IN  [preferences |-> preferences,
       isLoading |-> Prefs_isLoading(prefQ),
       hasAnyPreferences |-> Prefs_hasAnyPreferences(preferences),
       ensName |-> domainName]

\* The hook renders with a new domain name or active chain.
PrefsRerender(newDomain, newChain) ==
  LET sameKey == domainName = newDomain /\ Prefs_ensChainId(chainId) = Prefs_ensChainId(newChain)
  IN  prefQ' = [k \in PrefKeys |->
                  NextEntry(prefQ[k], sameKey, Truthy(newDomain),
                            Prefs_lookupEnabled(domainName), Prefs_lookupEnabled(newDomain))]

\* The connected account, and with it the name it resolves to, changes.
PrefsSetDomainName(d) ==
  /\ hook = PrefsHook
  /\ d # domainName
  /\ domainName' = d
  /\ PrefsRerender(d, chainId)
  /\ UNCHANGED <<hook, chainId, tokenVars, resolveVars, searchQuery, isDismissed, sendVars>>

\* The lookup of one preference record settles.
PrefSettles(k) ==
  /\ hook = PrefsHook
  /\ prefQ[k].st = "loading"
  /\ \E e \in Outcomes(PrefValues(k)) : prefQ' = [prefQ EXCEPT ![k] = e]
  /\ UNCHANGED <<hook, chainId, domainName, tokenVars, resolveVars, searchQuery, isDismissed, sendVars>>

(***************************************************************************)
(* ManageTokens                                                            *)
(***************************************************************************)
\* Texts typed into the search box.
Typed == {<<>>, NoDot, NameLower, NameBad, AddrLower}

\* safeGetAddress(value): the address if value is one, else undefined.
safeGetAddress(value) == addressRegex(value)

\* const isAddressValid = searchQuery === '' || safeGetAddress(searchQuery) || isENSName
Manage_isAddressValid(query, isENSName) ==
  query = <<>> \/ safeGetAddress(query) \/ isENSName

\* What ManageTokens renders from the search box text, the debounced text
\* and the result r of useENSTokenAddress(debouncedSearchQuery, true).
Manage_view(query, debounced, r) ==
  LET isAddressValid == Manage_isAddressValid(query, r.isENSName)
      finalAddress == IF r.address # Null THEN r.address
                      ELSE IF safeGetAddress(debounced) THEN debounced ELSE Undefined
  IN  [isAddressValid |-> isAddressValid,
       finalAddress |-> finalAddress,
       warning |-> ~isAddressValid /\ ~r.isLoading /\ debounced # <<>>,
       resolving |-> endsWith(trim(query), <<".", "e", "t", "h">>) /\ r.isLoading,
       resolved |-> r.isENSName /\ r.address # Null /\ ~r.isLoading]

\* handleInput: a keystroke changes the search box; the debounced text, and
\* with it the input of useENSTokenAddress, stays.
ManageType(i) ==
  /\ hook = ManageHook
  /\ i # searchQuery
  /\ searchQuery' = i
  /\ UNCHANGED <<hook, chainId, tokenVars, resolveVars, prefsVars, isDismissed, sendVars>>

\* useDebounce(searchQuery, 300): the quiet period ends and the debounced
\* text catches up; useENSTokenAddress renders with it.
ManageDebounceExpires ==
  /\ hook = ManageHook
  /\ tokenInput # searchQuery
  /\ tokenInput' = searchQuery
  /\ TokenRerender(searchQuery, tokenEnabled, chainId)
  /\ UNCHANGED <<hook, chainId, tokenEnabled, resolveVars, prefsVars, searchQuery, isDismissed, sendVars>>

(***************************************************************************)
(* ENSPreferencesIndicator                                                 *)
(***************************************************************************)
\* Variant: the banner comes back after it was closed.
Indicator_shown_ignoresDismissed(r, dismissed) ==
  ~(r.isLoading \/ ~Truthy(r.ensName) \/ ~r.hasAnyPreferences)

\* The banner is rendered: the component does not return null.  r is the
\* result of useENSPreferences.
Indicator_shown(r, dismissed) ==
  ~(r.isLoading \/ ~Truthy(r.ensName) \/ ~r.hasAnyPreferences \/ dismissed)

\* The close button of the banner is pressed.
IndicatorDismiss ==
  /\ hook = PrefsHook
  /\ Indicator_shown(Prefs_result, isDismissed)
  /\ isDismissed' = TRUE
  /\ UNCHANGED <<hook, chainId, tokenVars, resolveVars, prefsVars, searchQuery, sendVars>>

(***************************************************************************)
(* SendTransactionContent, ConfirmTransactionContent                       *)
(***************************************************************************)
\* An absent chainId prop.
NoChain == "undefined"

\* Values of the txHash prop: absent, or a hash.
TxHashes == {Undefined, <<"0", "x", "a">>}

\* What a press of the button can call.
NothingPressed == <<"none">>
OnConfirm == <<"onConfirm">>
SwitchNetwork(chain) == <<"switchNetwork", chain>>

\* Variant: a known hash wins over a transaction being attempted.
Send_screen_hashFirst(chainIdProp, attempting, hash) ==
  IF chainIdProp = NoChain THEN "null"
  ELSE IF Truthy(hash) THEN "completed"
  ELSE IF attempting THEN "pending"
  ELSE "confirm"

\* The screen SendTransactionContent renders.
Send_screen(chainIdProp, attempting, hash) ==
  IF chainIdProp = NoChain THEN "null"
  ELSE IF attempting THEN "pending"
  ELSE IF Truthy(hash) THEN "completed"
  ELSE "confirm"

\* Variant: the button always confirms.
Confirm_onClick_alwaysConfirm(activeChain, assetChain) == OnConfirm

\* onClick={isChainMatched ? onConfirm : () => switchNetworkAsync(asset.chainId)}
Confirm_onClick(activeChain, assetChain) ==
  IF activeChain = assetChain THEN OnConfirm ELSE SwitchNetwork(assetChain)

\* The parent renders the component with other props.
SendSetProps(c, a, att, h) ==
  /\ hook = SendHook
  /\ <<c, a, att, h>> # <<sendChainId, assetChainId, attemptingTxn, txHash>>
  /\ sendChainId' = c
  /\ assetChainId' = a
  /\ attemptingTxn' = att
  /\ txHash' = h
  /\ UNCHANGED <<hook, chainId, tokenVars, resolveVars, prefsVars, searchQuery, isDismissed, pressed>>

\* The button of the confirm screen is pressed.
ConfirmPress ==
  /\ hook = SendHook
  /\ Send_screen(sendChainId, attemptingTxn, txHash) = "confirm"
  /\ pressed' = Confirm_onClick(chainId, assetChainId)
  /\ UNCHANGED <<hook, chainId, tokenVars, resolveVars, prefsVars, searchQuery, isDismissed,
                 sendChainId, assetChainId, attemptingTxn, txHash>>

\* The call made by the press returns.
ConfirmPressReturns ==
  /\ hook = SendHook
  /\ pressed # NothingPressed
  /\ pressed' = NothingPressed
  /\ UNCHANGED <<hook, chainId, tokenVars, resolveVars, prefsVars, searchQuery, isDismissed,
                 sendChainId, assetChainId, attemptingTxn, txHash>>

\* The wallet switches chain; every hook renders again.
SetChain(c) ==
  /\ c # chainId
  /\ chainId' = c
  /\ TokenRerender(tokenInput, tokenEnabled, c)
  /\ ResolveRerender(resolveInput, resolveEnabled, c)
  /\ PrefsRerender(domainName, c)
  /\ UNCHANGED <<hook, tokenInput, tokenEnabled, resolveInput, resolveEnabled, domainName, searchQuery, isDismissed, sendVars>>

Init ==
  /\ hook \in Hooks
  /\ chainId \in Chains
  /\ tokenInput = <<>>
  /\ tokenEnabled = TRUE
  /\ primaryAddressQ = IdleEntry
  /\ tokenTextRecordQ = IdleEntry
  /\ decimalsQ = IdleEntry
  /\ verifyFailures = 0
  /\ resolveInput = <<>>
  /\ resolveEnabled = TRUE
  /\ addressQ = IdleEntry
  /\ avatarQ = IdleEntry
  /\ socialQ = [k \in SocialKeys |-> IdleEntry]
  /\ domainName = Undefined
  /\ prefQ = [k \in PrefKeys |-> IdleEntry]
  /\ searchQuery = <<>>
  /\ isDismissed = FALSE
  /\ sendChainId = NoChain
  /\ assetChainId = BSC
  /\ attemptingTxn = FALSE
  /\ txHash = Undefined
  /\ pressed = NothingPressed

Next ==
  \/ \E i \in Inputs : TokenSetInput(i)
  \/ TokenSetEnabled
  \/ TokenPrimarySettles
  \/ TokenRecordSettles
  \/ TokenVerifySettles
  \/ \E i \in Inputs : ResolveSetInput(i)
  \/ ResolveSetEnabled
  \/ ProfileAddressSettles
  \/ ProfileAvatarSettles
  \/ \E k \in SocialKeys : ProfileSocialSettles(k)
  \/ \E d \in DomainNames : PrefsSetDomainName(d)
  \/ \E k \in PrefKeys : PrefSettles(k)
  \/ \E i \in Typed : ManageType(i)
  \/ ManageDebounceExpires
  \/ IndicatorDismiss
  \/ \E c \in Chains \cup {NoChain}, a \in Chains, att \in BOOLEAN, h \in TxHashes :
       SendSetProps(c, a, att, h)
  \/ ConfirmPress
  \/ ConfirmPressReturns
  \/ \E c \in Chains : SetChain(c)

Spec == Init /\ [][Next]_vars

Statuses == {"idle", "loading", "success", "error"}

TypeOK ==
  /\ hook \in Hooks
  /\ chainId \in Chains
  /\ tokenInput \in Inputs
  /\ tokenEnabled \in BOOLEAN
  /\ primaryAddressQ.st \in Statuses
  /\ tokenTextRecordQ.st \in Statuses
  /\ decimalsQ.st \in Statuses
  /\ verifyFailures \in 0..(VerifyRetry + 1)
  /\ resolveInput \in Inputs
  /\ resolveEnabled \in BOOLEAN
  /\ addressQ.st \in Statuses
  /\ avatarQ.st \in Statuses
  /\ \A k \in SocialKeys : socialQ[k].st \in Statuses
  /\ domainName \in DomainNames
  /\ \A k \in PrefKeys : prefQ[k].st \in Statuses
  /\ searchQuery \in Typed
  /\ isDismissed \in BOOLEAN
  /\ sendChainId \in Chains \cup {NoChain}
  /\ assetChainId \in Chains
  /\ attemptingTxn \in BOOLEAN
  /\ txHash \in TxHashes
  /\ pressed \in {NothingPressed, OnConfirm} \cup {SwitchNetwork(c) : c \in Chains}

(***************************************************************************)
(* Properties                                                              *)
(***************************************************************************)
ValidAddress(v) == Truthy(v) /\ isAddress(v)

TokenMounted == hook = TokenHook
ResolveMounted == hook = ResolveHook

\* The candidate both revisions must report once both lookups have settled.
ExpectedCandidate ==
  IF ValidAddress(tokenTextRecordQ.data) THEN tokenTextRecordQ.data
  ELSE IF ValidAddress(primaryAddressQ.data) THEN primaryAddressQ.data
  ELSE Null

\* C1: for an ENS-name input, once the primary-address lookup and the
\* `token` record lookup have both settled, the candidate is the token record
\* when that is a valid address, else the primary address when that is
\* valid, else absent.
C1_TokenRecordPrecedence ==
  (/\ TokenMounted
   /\ Token_classified[tokenInput].isENSName
   /\ Settled(primaryAddressQ)
   /\ Settled(tokenTextRecordQ))
  => /\ Token_result.address = ExpectedCandidate
     /\ TokenWeb_result.address = ExpectedCandidate

\* Token record A and primary address B, both valid and different: A wins.
C1_Witness ==
  /\ TokenMounted
  /\ Token_classified[tokenInput].isENSName
  /\ tokenTextRecordQ = Success(AddrChecksum)
  /\ primaryAddressQ = Success(AddrB)
  /\ Token_result.address = AddrChecksum

\* The decimals() read of the current candidate has succeeded.
VerifiedERC20(candidate) ==
  candidate # Null /\ decimalsQ.st = "success" /\ decimalsQ.data # Undefined

\* The right-hand side of C2 for a hook result r.
ValidAsClaimed(r) ==
  /\ tokenInput # Undefined
  /\ trim(tokenInput) # <<>>
  /\ \/ ~r.isENSName /\ isAddress(trim(tokenInput)) /\ VerifiedERC20(r.address)
     \/ r.isENSName /\ r.address # Null /\ VerifiedERC20(r.address)

\* C2: isValid is true exactly when the input is non-empty after trimming
\* and either it is a valid address verified as ERC-20 or it is an ENS name
\* whose resolved candidate is verified as ERC-20.  Stated for both revisions
\* of useENSTokenAddress.
C2_IsValidRequiresERC20 ==
  TokenMounted
  => /\ Token_result.isValid <=> ValidAsClaimed(Token_result)
     /\ TokenWeb_result.isValid <=> ValidAsClaimed(TokenWeb_result)

\* C3: hasTokenRecord is true exactly when the `token` record lookup has
\* returned a value that is a valid address, whatever isValid and
\* isERC20Token are.
C3_HasTokenRecord ==
  TokenMounted
  => /\ Token_result.hasTokenRecord
          <=> (tokenTextRecordQ.st = "success" /\ ValidAddress(tokenTextRecordQ.data))
     /\ TokenWeb_result.hasTokenRecord
          <=> (tokenTextRecordQ.st = "success" /\ ValidAddress(tokenTextRecordQ.data))

\* The record is set and its target failed the ERC-20 verification.
C3_Witness ==
  /\ TokenMounted
  /\ Token_result.hasTokenRecord
  /\ decimalsQ.st = "error"
  /\ ~Token_result.isERC20Token
  /\ ~Token_result.isValid

\* A trimmed text of the form 0x + 40 hex digits, in any casing.
TrimmedHexAddress(input) ==
  input # Undefined /\ trim(input) = input /\ addressRegex(input)

\* C4: every trimmed input matching 0x + 40 hex digits, in any mix of
\* upper and lower case, is classified Address by both classifiers.
C4_HexPatternIsAddress ==
  /\ (TokenMounted /\ TrimmedHexAddress(tokenInput))
       => /\ ~Token_result.isENSName
          /\ Token_result.address = tokenInput
          /\ ~TokenWeb_result.isENSName
          /\ TokenWeb_result.address = tokenInput
  /\ (ResolveMounted /\ TrimmedHexAddress(resolveInput))
       => /\ ~Resolve_result.isENSName
          /\ Resolve_result.address = resolveInput
          /\ Resolve_result.isValid

\* A text without a `.` that is not address-shaped (absent, empty and blank
\* texts included).
NoDotNotAddress(input) ==
  \/ input = Undefined
  \/ ~includes(input, ".") /\ ~addressRegex(trim(input))

TokenLookupsIdle ==
  primaryAddressQ = IdleEntry /\ tokenTextRecordQ = IdleEntry

ProfileLookupsIdle ==
  /\ addressQ = IdleEntry
  /\ avatarQ = IdleEntry
  /\ \A k \in SocialKeys : socialQ[k] = IdleEntry

\* C5: an input without a `.` that is not address-shaped is Invalid for both
\* classifiers: isENSName is false, no address is reported, isValid is false
\* and no lookup is enabled.
C5_NoDotIsInvalid ==
  /\ (TokenMounted /\ NoDotNotAddress(tokenInput))
       => /\ ~Token_result.isENSName
          /\ Token_result.address = Null
          /\ ~Token_result.isValid
          /\ ~TokenWeb_result.isENSName
          /\ TokenWeb_result.address = Null
          /\ ~TokenWeb_result.isValid
          /\ ~Token_lookupEnabled(Token_classified[tokenInput].isENSName, tokenEnabled,
                                  Token_classified[tokenInput].normalizedName)
          /\ ~Token_verifyEnabled(Token_result.address)
          /\ TokenLookupsIdle
          /\ decimalsQ = IdleEntry
  /\ (ResolveMounted /\ NoDotNotAddress(resolveInput))
       => /\ ~Resolve_result.isENSName
          /\ Resolve_result.address = Undefined
          /\ ~Resolve_result.isValid
          /\ ~Resolve_shouldFetch(resolveInput, resolveEnabled, chainId)
          /\ ProfileLookupsIdle

\* 0x and 39 hex digits: no `.`, not an address.
C5_Witness ==
  /\ TokenMounted
  /\ tokenInput = AddrShort
  /\ tokenEnabled
  /\ ~Token_result.isValid

\* C6: no input is both an address and an ENS name, and for an
\* address-classified input no name-resolution lookup is enabled.
C6_ClassificationExclusive ==
  /\ TokenMounted
       => LET c == Token_classified[tokenInput]
              addr == tokenInput # Undefined /\ isAddress(trim(tokenInput))
          IN  /\ ~(c.isENSName /\ addr)
              /\ ~(TokenWeb_classified[tokenInput].isENSName /\ addr)
              /\ addr => /\ ~Token_lookupEnabled(c.isENSName, tokenEnabled, c.normalizedName)
                         /\ TokenLookupsIdle
  /\ ResolveMounted
       => LET d == Resolve_derived[resolveInput]
          IN  /\ ~(d.isENSName /\ d.isAddress)
              /\ ~(Resolve_result.isENSName /\ d.isAddress)
              /\ d.isAddress => /\ ~Resolve_shouldFetch(resolveInput, resolveEnabled, chainId)
                                /\ ProfileLookupsIdle

\* An address input with the hook enabled: only the verification read runs.
C6_Witness ==
  /\ TokenMounted
  /\ tokenInput = AddrChecksum
  /\ tokenEnabled
  /\ decimalsQ.st = "loading"
  /\ TokenLookupsIdle

\* C7: a non-address input with a `.` whose normalization fails is Invalid
\* for both resolvers: isENSName is false, no ENS name is reported and no
\* lookup is issued.
C7_NormalizationFailureIsInvalid ==
  /\ (/\ TokenMounted
      /\ tokenInput # Undefined
      /\ includes(trim(tokenInput), ".")
      /\ ~isAddress(trim(tokenInput))
      /\ normalize(trim(tokenInput)) = NormalizationError)
       => /\ ~Token_result.isENSName
          /\ Token_result.ensName = Null
          /\ ~TokenWeb_result.isENSName
          /\ TokenWeb_result.ensName = Null
          /\ TokenLookupsIdle
  /\ (/\ ResolveMounted
      /\ resolveInput # Undefined
      /\ includes(resolveInput, ".")
      /\ ~addressRegex(resolveInput)
      /\ normalize(resolveInput) = NormalizationError)
       => /\ ~Resolve_result.isENSName
          /\ Resolve_result.ensName = Undefined
          /\ ~Resolve_shouldFetch(resolveInput, resolveEnabled, chainId)
          /\ ProfileLookupsIdle

\* C8: while a hex address is the input of useResolveAddressOrENS, the
\* result is the Address classification: the address is the input, isValid
\* is true, isLoading is false, no lookup is enabled and none is in flight.
C8_AddressShortCircuit ==
  (ResolveMounted /\ Truthy(resolveInput) /\ addressRegex(resolveInput))
  => /\ Resolve_result.address = resolveInput
     /\ ~Resolve_result.isENSName
     /\ Resolve_result.isValid
     /\ ~Resolve_result.isLoading
     /\ ~Resolve_shouldFetch(resolveInput, resolveEnabled, chainId)
     /\ ProfileLookupsIdle

\* "0xABCDEF0123456789ABCDEF0123456789ABCDEF01" on a chain with ENS, enabled.
C8_Witness ==
  /\ ResolveMounted
  /\ resolveInput = AddrUpper
  /\ resolveEnabled
  /\ chainId = ETHEREUM
  /\ Resolve_result.isValid

\* C9: for a valid-address input useENSTokenAddress reports the trimmed
\* input as the candidate and enables neither name lookup.
C9_AddressIsCandidate ==
  (TokenMounted /\ tokenInput # Undefined /\ isAddress(trim(tokenInput)))
  => /\ Token_result.address = trim(tokenInput)
     /\ TokenWeb_result.address = trim(tokenInput)
     /\ ~Token_lookupEnabled(Token_classified[tokenInput].isENSName, tokenEnabled,
                             Token_classified[tokenInput].normalizedName)
     /\ ~TokenWeb_lookupEnabled(TokenWeb_classified[tokenInput].isENSName, tokenEnabled,
                                TokenWeb_classified[tokenInput].normalizedName)
     /\ TokenLookupsIdle

\* An address typed with blanks around it: the candidate is the trimmed text.
C9_Witness ==
  /\ TokenMounted
  /\ tokenInput = Blanks(1) \o AddrLower \o Blanks(1)
  /\ Token_result.address = AddrLower
  /\ decimalsQ.st = "success"

\* C10: useENSProfile reports isValid exactly when the address lookup has
\* produced a non-empty address, whatever the avatar and social lookups did;
\* useResolveAddressOrENS passes that on for a name input.
C10_ProfileValidIffAddress ==
  ResolveMounted
  => LET found == addressQ.st = "success" /\ Truthy(addressQ.data)
     IN  /\ Profile_result(addressQ, avatarQ, socialQ).isValid <=> found
         /\ Resolve_derived[resolveInput].isENSName => (Resolve_result.isValid <=> found)

\* The address resolves and the avatar lookup returns empty.
C10_Witness ==
  /\ ResolveMounted
  /\ Resolve_derived[resolveInput].isENSName
  /\ addressQ = Success(AddrB)
  /\ avatarQ = Success(Null)
  /\ Resolve_result.isValid
  /\ Resolve_result.avatar = Undefined

\* C11: useENSProfile reports isLoading exactly when its address lookup or
\* its avatar lookup is outstanding; an outstanding social-record lookup alone
\* never makes isLoading true.  useResolveAddressOrENS passes the flag on for
\* a name input.
C11_LoadingIsAddressOrAvatar ==
  ResolveMounted
  => LET r == Profile_result(addressQ, avatarQ, socialQ)
         outstanding == addressQ.st = "loading" \/ avatarQ.st = "loading"
     IN  /\ r.isLoading <=> outstanding
         /\ Resolve_derived[resolveInput].isENSName
              => (Resolve_result.isLoading <=> outstanding)

\* Address and avatar have settled, a social lookup is still outstanding and
\* the profile is not loading.
C11_Witness ==
  /\ ResolveMounted
  /\ Resolve_derived[resolveInput].isENSName
  /\ addressQ = Success(AddrB)
  /\ Settled(avatarQ)
  /\ socialQ["com.twitter"].st = "loading"
  /\ ~Resolve_result.isLoading

\* A social lookup is issued in this step: its entry becomes outstanding.
SocialIssued(k) == socialQ[k].st # "loading" /\ socialQ'[k].st = "loading"

\* C12: a social text-record lookup is issued only in a step after which the
\* address lookup for the same name holds a non-empty address; so none is
\* issued before the address resolves, and none at all for a name whose
\* address does not resolve.
C12_SocialAfterAddress ==
  [][\A k \in SocialKeys :
       SocialIssued(k) => addressQ'.st = "success" /\ Truthy(addressQ'.data)]_vars

\* All six social lookups are outstanding for a name that resolved.
C12_Witness ==
  /\ ResolveMounted
  /\ addressQ = Success(AddrB)
  /\ \A k \in SocialKeys : socialQ[k].st = "loading"

\* A lookup of useENSProfile is issued in this step.
ProfileLookupIssued ==
  \/ addressQ.st # "loading" /\ addressQ'.st = "loading"
  \/ avatarQ.st # "loading" /\ avatarQ'.st = "loading"
  \/ \E k \in SocialKeys : SocialIssued(k)

\* C13: while the active chain is one without ENS support (BSC, BSC
\* testnet), useENSProfile issues no address, avatar or social lookup and
\* reports the not-found result: address absent, isValid false, isLoading
\* false.
C13_UnsupportedChainNotFound ==
  [][(ResolveMounted /\ ~Profile_isENSSupported(chainId'))
       => /\ ~ProfileLookupIssued
          /\ LET r == Profile_result(addressQ', avatarQ', socialQ')
             IN  ~Truthy(r.address) /\ ~r.isValid /\ ~r.isLoading]_vars

PrefsMounted == hook = PrefsHook

\* The chain the claim names for ENS lookups under an active chain.
ClaimedENSChain(chain) == IF chain = GOERLI THEN GOERLI ELSE ETHEREUM

\* C14: every name-to-address, avatar and text-record lookup of
\* useENSTokenAddress, useENSProfile and useENSPreferences that is outstanding
\* or has settled is keyed by Goerli when the active chain is Goerli and by
\* Ethereum mainnet under every other active chain.
C14_LookupChain ==
  /\ (TokenMounted /\ ~TokenLookupsIdle)
       => Token_ensChainId(chainId) = ClaimedENSChain(chainId)
  /\ (ResolveMounted /\ ~ProfileLookupsIdle)
       => Profile_lookupChain(chainId) = ClaimedENSChain(chainId)
  /\ (PrefsMounted /\ \E k \in PrefKeys : prefQ[k] # IdleEntry)
       => Prefs_ensChainId(chainId) = ClaimedENSChain(chainId)

\* The wallet is on BSC and the name lookups of useENSTokenAddress, issued
\* there, go to mainnet.
C14_Witness ==
  /\ TokenMounted
  /\ chainId = BSC
  /\ primaryAddressQ.st = "loading"
  /\ tokenTextRecordQ.st = "loading"
  /\ Token_ensChainId(chainId) = ETHEREUM

\* C15: isLoading is the OR of the lookups the output depends on: in
\* useENSTokenAddress it is true exactly when the primary-address lookup, the
\* `token` record lookup or the decimals() read is outstanding, for name and
\* address inputs alike (the revision without verification: the two name
\* lookups); in useENSPreferences exactly when one of the four preference
\* lookups is outstanding.
C15_LoadingIsOrOfLookups ==
  /\ TokenMounted
       => /\ Token_result.isLoading
               <=> \/ primaryAddressQ.st = "loading"
                   \/ tokenTextRecordQ.st = "loading"
                   \/ decimalsQ.st = "loading"
          /\ TokenWeb_result.isLoading
               <=> \/ primaryAddressQ.st = "loading"
                   \/ tokenTextRecordQ.st = "loading"
  /\ PrefsMounted
       => (Prefs_result.isLoading <=> \E k \in PrefKeys : prefQ[k].st = "loading")

ManageMounted == hook = ManageHook

\* C16: what ManageTokens displays is derived from the text the display is
\* for, the one in the search box: the invalid-input warning on that box is
\* shown only when that text is itself neither empty, nor an address, nor an
\* ENS name; a classification computed for an earlier text is never combined
\* with the later text.  Stated for both revisions of useENSTokenAddress.
C16_FlagsFromDisplayedInput ==
  ManageMounted
  => /\ Manage_view(searchQuery, tokenInput, Token_result).warning
          => ~Manage_isAddressValid(searchQuery, Token_classified[searchQuery].isENSName)
     /\ Manage_view(searchQuery, tokenInput, TokenWeb_result).warning
          => ~Manage_isAddressValid(searchQuery, TokenWeb_classified[searchQuery].isENSName)

\* A lookup of useENSTokenAddress (name lookups or the decimals() read) is
\* issued in this step.
TokenLookupIssued ==
  \/ primaryAddressQ.st # "loading" /\ primaryAddressQ'.st = "loading"
  \/ tokenTextRecordQ.st # "loading" /\ tokenTextRecordQ'.st = "loading"
  \/ decimalsQ.st # "loading" /\ decimalsQ'.st = "loading"

\* C17: a hook rendered with enabled = false issues no lookup: no
\* name-to-address, avatar or text-record lookup in useENSProfile and
\* useENSTokenAddress, and no decimals() read.
C17_DisabledIssuesNothing ==
  [][/\ (TokenMounted /\ ~tokenEnabled') => ~TokenLookupIssued
     /\ (ResolveMounted /\ ~resolveEnabled') => ~ProfileLookupIssued]_vars

\* C18: a failed decimals() read is absorbed.  The read ends in error only
\* after one retry (two failed attempts); from then on the hook reports
\* isERC20Token = false and isValid = false, and the step that gives up
\* leaves the reported candidate address and hasTokenRecord as they were.
C18_VerificationFailureAbsorbed ==
  [][(TokenMounted /\ decimalsQ'.st = "error")
       => /\ verifyFailures' = VerifyRetry + 1
          /\ ~Token_result'.isERC20Token
          /\ ~Token_result'.isValid
          /\ Token_result'.address # Null
          /\ decimalsQ.st = "loading"
               => /\ verifyFailures = VerifyRetry
                  /\ Token_result'.address = Token_result.address
                  /\ Token_result'.hasTokenRecord = Token_result.hasTokenRecord]_vars

\* A name whose token record is a valid address that is no ERC-20 contract:
\* the read has failed twice.
C18_Witness ==
  /\ TokenMounted
  /\ Token_classified[tokenInput].isENSName
  /\ decimalsQ.st = "error"
  /\ verifyFailures = VerifyRetry + 1
  /\ Token_result.address = AddrChecksum
  /\ Token_result.hasTokenRecord
  /\ ~Token_result.isERC20Token
  /\ ~Token_result.isValid

\* The whole text is a decimal number: an optional sign, digits with an
\* optional fraction, an optional exponent, and nothing else.
DecimalText(t) ==
  LET body == IF t # <<>> /\ t[1] \in {"+", "-"} THEN Drop(t, 1) ELSE t
      intLen == DigitPrefixLen(body)
      afterInt == Drop(body, intLen)
      hasDot == afterInt # <<>> /\ afterInt[1] = "."
      fracLen == IF hasDot THEN DigitPrefixLen(Drop(afterInt, 1)) ELSE 0
      afterFrac == IF hasDot THEN Drop(afterInt, 1 + fracLen) ELSE afterInt
      afterE == IF afterFrac # <<>> THEN Drop(afterFrac, 1) ELSE <<>>
      expBody == IF afterE # <<>> /\ afterE[1] \in {"+", "-"} THEN Drop(afterE, 1) ELSE afterE
  IN  /\ intLen + fracLen > 0
      /\ \/ afterFrac = <<>>
         \/ /\ afterFrac[1] \in {"e", "E"}
            /\ expBody # <<>>
            /\ DigitPrefixLen(expBody) = Len(expBody)

\* Numeric text denoting a finite number in [0, 50].
NumericInRange(t) ==
  /\ Truthy(t)
  /\ DecimalText(t)
  /\ Number_geZero(parseFloat(t))
  /\ Number_le(parseFloat(t), 50)

\* C19: the slippage field is present exactly when the slippage record is
\* numeric text denoting a finite number in [0, 50], and then its value is
\* the record text unchanged.
C19_SlippageNumericInRange ==
  PrefsMounted
  => LET text == prefQ[SLIPPAGE].data
         preferences == Prefs_result.preferences
     IN  /\ "slippage" \in DOMAIN preferences <=> NumericInRange(text)
         /\ "slippage" \in DOMAIN preferences => preferences["slippage"] = text

\* The text is `true` in some mix of upper and lower case.
TrueIgnoringCase(t) ==
  /\ Len(t) = 4
  /\ t[1] \in {"t", "T"}
  /\ t[2] \in {"r", "R"}
  /\ t[3] \in {"u", "U"}
  /\ t[4] \in {"e", "E"}

\* C20: the expertMode field is present exactly when the expert-mode record
\* is non-empty; its value is true when the text is `true` ignoring case and
\* false for every other text; an unset record leaves the field absent.
C20_ExpertModeDecoding ==
  PrefsMounted
  => LET text == prefQ[EXPERT_MODE].data
         preferences == Prefs_result.preferences
     IN  /\ "expertMode" \in DOMAIN preferences <=> Truthy(text)
         /\ "expertMode" \in DOMAIN preferences
              => (preferences["expertMode"] <=> TrueIgnoringCase(text))

\* The record holds `True`: expert mode is present and on.
C20_Witness ==
  /\ PrefsMounted
  /\ prefQ[EXPERT_MODE] = Success(<<"T", "r", "u", "e">>)
  /\ "expertMode" \in DOMAIN Prefs_result.preferences
  /\ Prefs_result.preferences["expertMode"]

\* C21: the theme field is present exactly when the theme record is the
\* text `dark` or the text `light`, and then it is that text; any other
\* text, `Dark` included, leaves it absent.
C21_ThemeDecoding ==
  PrefsMounted
  => LET text == prefQ[THEME].data
         preferences == Prefs_result.preferences
     IN  /\ "theme" \in DOMAIN preferences
              <=> text \in {<<"d", "a", "r", "k">>, <<"l", "i", "g", "h", "t">>}
         /\ "theme" \in DOMAIN preferences => preferences["theme"] = text

\* The record holds `Dark`: no theme, although other fields are decoded.
C21_Witness ==
  /\ PrefsMounted
  /\ prefQ[THEME] = Success(<<"D", "a", "r", "k">>)
  /\ "theme" \notin DOMAIN Prefs_result.preferences
  /\ "expertMode" \in DOMAIN Prefs_result.preferences

\* The texts `low`, `medium`, `high` in any mix of upper and lower case,
\* given with their lower-case form.
GasIgnoringCase(t, lower) ==
  /\ lower \in {<<"l", "o", "w">>, <<"m", "e", "d", "i", "u", "m">>, <<"h", "i", "g", "h">>}
  /\ Len(t) = Len(lower)
  /\ \A i \in 1..Len(t) :
        t[i] = lower[i] \/ (t[i] \in UpperChars /\ LowerOf[t[i]] = lower[i])

\* C22: the gasPriority field is present exactly when the gas record is
\* `low`, `medium` or `high` ignoring case, and then its value is the record
\* text in lower case; any other text leaves it absent.
C22_GasPriorityDecoding ==
  PrefsMounted
  => LET text == prefQ[GAS_PRIORITY].data
         preferences == Prefs_result.preferences
         Lowers == {<<"l", "o", "w">>, <<"m", "e", "d", "i", "u", "m">>, <<"h", "i", "g", "h">>}
     IN  /\ "gasPriority" \in DOMAIN preferences
              <=> \E lower \in Lowers : GasIgnoringCase(text, lower)
         /\ "gasPriority" \in DOMAIN preferences
              => GasIgnoringCase(text, preferences["gasPriority"])

\* The record holds `HIGH`: the field is `high`.
C22_Witness ==
  /\ PrefsMounted
  /\ prefQ[GAS_PRIORITY] = Success(<<"H", "I", "G", "H">>)
  /\ "gasPriority" \in DOMAIN Prefs_result.preferences
  /\ Prefs_result.preferences["gasPriority"] = <<"h", "i", "g", "h">>

\* The fields the claims C19..C22 say are present for the four record texts.
ClaimedFields(slippageText, themeText, expertModeText, gasText) ==
  {f \in {"slippage", "theme", "expertMode", "gasPriority"} :
     \/ f = "slippage" /\ NumericInRange(slippageText)
     \/ f = "theme" /\ themeText \in {<<"d", "a", "r", "k">>, <<"l", "i", "g", "h", "t">>}
     \/ f = "expertMode" /\ Truthy(expertModeText)
     \/ f = "gasPriority"
          /\ \E lower \in {<<"l", "o", "w">>, <<"m", "e", "d", "i", "u", "m">>,
                            <<"h", "i", "g", "h">>} : GasIgnoringCase(gasText, lower)}

\* C23: hasAnyPreferences is true exactly when at least one of the four
\* fields is present after validation (an expertMode of false counts); a
\* record that fails validation is dropped alone: it never makes
\* hasAnyPreferences true and the other fields stay.
C23_HasAnyPreferences ==
  PrefsMounted
  => LET claimed == ClaimedFields(prefQ[SLIPPAGE].data, prefQ[THEME].data,
                                  prefQ[EXPERT_MODE].data, prefQ[GAS_PRIORITY].data)
     IN  /\ Prefs_result.hasAnyPreferences <=> claimed # {}
         /\ DOMAIN Prefs_result.preferences = claimed

SendMounted == hook = SendHook

\* C24: SendTransactionContent renders nothing when the chainId prop is
\* absent; otherwise it renders the pending screen when attemptingTxn is true
\* (also with a txHash), else the completed screen when a txHash is set, else
\* the confirm screen; never the completed screen while attemptingTxn is true.
C24_OneScreen ==
  SendMounted
  => LET screen == Send_screen(sendChainId, attemptingTxn, txHash)
         hashSet == txHash # Undefined /\ txHash # <<>>
     IN  /\ screen = "null" <=> sendChainId = NoChain
         /\ sendChainId # NoChain
              => /\ screen \in {"pending", "completed", "confirm"}
                 /\ screen = "pending" <=> attemptingTxn
                 /\ screen = "completed" <=> (~attemptingTxn /\ hashSet)
                 /\ screen = "confirm" <=> (~attemptingTxn /\ ~hashSet)

\* A transaction is being attempted while a hash is already known: pending.
C24_Witness ==
  /\ SendMounted
  /\ sendChainId = BSC
  /\ attemptingTxn
  /\ txHash = <<"0", "x", "a">>
  /\ Send_screen(sendChainId, attemptingTxn, txHash) = "pending"

\* C25: a press of the button of ConfirmTransactionContent calls onConfirm
\* only when the active chain equals the asset's chain; while they differ it
\* only asks for a switch to the asset's chain.
C25_ConfirmOnlyOnAssetChain ==
  [][(SendMounted /\ pressed' # pressed /\ pressed' # NothingPressed)
       => /\ pressed' = OnConfirm => chainId = assetChainId
          /\ chainId # assetChainId => pressed' = SwitchNetwork(assetChainId)]_vars

\* The button was pressed on another chain than the asset's: a switch to
\* the asset's chain was asked for.
C25_Witness ==
  /\ SendMounted
  /\ chainId = ETHEREUM
  /\ assetChainId = BSC
  /\ pressed = SwitchNetwork(BSC)

\* C26: the banner of ENSPreferencesIndicator is shown exactly when no
\* preference lookup is outstanding, an ENS name is known, hasAnyPreferences
\* is true and the banner was not closed; once closed it stays closed and
\* is never shown again, whatever the lookups, the name and the preferences do.
C26_BannerAndDismissal ==
  [][PrefsMounted
       => /\ Indicator_shown(Prefs_result, isDismissed)
               <=> (/\ \A k \in PrefKeys : prefQ[k].st # "loading"
                    /\ Truthy(domainName)
                    /\ Prefs_result.hasAnyPreferences
                    /\ ~isDismissed)
          /\ isDismissed => isDismissed' /\ PrefsMounted']_vars

\* The banner was closed and the preferences are there: nothing is shown.
C26_Witness ==
  /\ PrefsMounted
  /\ isDismissed
  /\ Truthy(domainName)
  /\ ~Prefs_result.isLoading
  /\ Prefs_result.hasAnyPreferences
  /\ ~Indicator_shown(Prefs_result, isDismissed)

====
